---- MODULE Spec2Model ----
(***************************************************************************)
(* A state-machine model of godotup's library (src/src/lib.rs): the        *)
(* version registry, the resumable downloader, the archive extraction and  *)
(* the three CliApp operations (update_version_list, install_godot,        *)
(* switch), over a small file system and a nondeterministic HTTP server.   *)
(*                                                                         *)
(* Strings that the program builds (display strings, file names, paths)    *)
(* are sequences of tokens; a path is a sequence of components, each a     *)
(* token sequence.  File contents and HTTP bodies are sequences of bytes.  *)
(***************************************************************************)
EXTENDS Integers, Sequences, FiniteSets, TLC

VARIABLES fs, proc, quota, unix, pure

vars == <<fs, proc, quota, unix, pure>>

(***************************************************************************)
(* Bounds of the model.                                                    *)
(***************************************************************************)
\* Invocations one user runs one after the other.
MaxOps == 2
\* The largest number of bytes one network chunk carries.
MaxChunk == 2
\* Invocations each of two concurrent users runs.
MaxConcOps == 1

\* Invocation slots: slot 1 runs MaxOps invocations in sequence.
Procs == {1, 2}

(***************************************************************************)
(* Sequences and strings.                                                  *)
(***************************************************************************)
Range(s) == {s[i] : i \in 1..Len(s)}

IsPrefix(s, t) == Len(s) <= Len(t) /\ SubSeq(t, 1, Len(s)) = s

Drop(s, n) == SubSeq(s, n + 1, Len(s))

Take(s, n) == SubSeq(s, 1, n)

Digit == <<"0", "1", "2", "3", "4", "5", "6", "7", "8", "9">>

\* format!("{}", n) of an unsigned integer: its decimal digits.
RECURSIVE Dec(_)
Dec(n) == IF n < 10 THEN <<Digit[n + 1]>> ELSE Dec(n \div 10) \o <<Digit[(n % 10) + 1]>>

(***************************************************************************)
(* godot::Version, godot::Suffix, godot::Platform.                         *)
(***************************************************************************)
Platform == {"Win32", "Win64", "Linux32", "Linux64", "Macos"}

Stable == [kind |-> "Stable", n |-> 0]
Alpha(x) == [kind |-> "Alpha", n |-> x]
Beta(x) == [kind |-> "Beta", n |-> x]
Rc(x) == [kind |-> "Rc", n |-> x]

Version(major, minor, patch, suffix, is_mono, platform) ==
    [major |-> major, minor |-> minor, patch |-> patch, suffix |-> suffix,
     is_mono |-> is_mono, platform |-> platform]

\* A Display that also prints the platform.
Display_with_platform(v) ==
    LET suffix_str == CASE v.suffix.kind = "Alpha" -> <<"-alpha">> \o Dec(v.suffix.n)
                        [] v.suffix.kind = "Beta" -> <<"-beta">> \o Dec(v.suffix.n)
                        [] v.suffix.kind = "Rc" -> <<"-rc">> \o Dec(v.suffix.n)
                        [] v.suffix.kind = "Stable" -> <<"-stable">>
        mono_str == IF v.is_mono THEN <<"_mono">> ELSE <<>>
    IN  <<"Godot_v">> \o Dec(v.major) \o <<".">> \o Dec(v.minor) \o <<".">>
            \o Dec(v.patch) \o suffix_str \o mono_str \o <<"_", v.platform>>

\* A Display that leaves the mono variant out.
Display_without_mono(v) ==
    LET suffix_str == CASE v.suffix.kind = "Alpha" -> <<"-alpha">> \o Dec(v.suffix.n)
                        [] v.suffix.kind = "Beta" -> <<"-beta">> \o Dec(v.suffix.n)
                        [] v.suffix.kind = "Rc" -> <<"-rc">> \o Dec(v.suffix.n)
                        [] v.suffix.kind = "Stable" -> <<"-stable">>
    IN  <<"Godot_v">> \o Dec(v.major) \o <<".">> \o Dec(v.minor) \o <<".">>
            \o Dec(v.patch) \o suffix_str

\* impl Display for Version
Display(v) ==
    LET suffix_str == CASE v.suffix.kind = "Alpha" -> <<"-alpha">> \o Dec(v.suffix.n)
                        [] v.suffix.kind = "Beta" -> <<"-beta">> \o Dec(v.suffix.n)
                        [] v.suffix.kind = "Rc" -> <<"-rc">> \o Dec(v.suffix.n)
                        [] v.suffix.kind = "Stable" -> <<"-stable">>
        mono_str == IF v.is_mono THEN <<"_mono">> ELSE <<>>
    IN  <<"Godot_v">> \o Dec(v.major) \o <<".">> \o Dec(v.minor) \o <<".">>
            \o Dec(v.patch) \o suffix_str \o mono_str

\* Version::versnum_to_str
versnum_to_str(v) == Dec(v.major) \o <<".">> \o Dec(v.minor) \o <<".">> \o Dec(v.patch)

\* get_arch: the name of the architecture the build targets.
get_arch(target_arch) ==
    CASE target_arch = "x86" -> "x86_32"
      [] target_arch = "x86_64" -> "x86_64"
      [] OTHER -> "unknown"

\* get_platform_suffix on a host with env::consts::OS = os: the suffix, or the
\* panic of unreachable!() and unimplemented!().
get_platform_suffix(os, target_arch) ==
    CASE os = "linux" -> [result |-> "Ok", val |-> <<"linux.", get_arch(target_arch)>>]
      [] os = "windows" ->
            (CASE get_arch(target_arch) = "x86_32" -> [result |-> "Ok", val |-> <<"win32.exe">>]
               [] get_arch(target_arch) = "x86_64" -> [result |-> "Ok", val |-> <<"win64.exe">>]
               [] OTHER -> [result |-> "Panic", val |-> <<"unreachable">>])
      [] OTHER -> [result |-> "Panic", val |-> <<"not implemented">>]

\* The versions the user asks for: one registered build, its near misses
\* (other platform, mono variant) and a registered prerelease.
VLinux == Version(4, 0, 3, Stable, FALSE, "Linux64")
VWin == Version(4, 0, 3, Stable, FALSE, "Win64")
VMono == Version(4, 0, 3, Stable, TRUE, "Linux64")
VAlpha == Version(4, 0, 0, Alpha(8), FALSE, "Linux64")

VersionSeq == <<VLinux, VWin, VMono, VAlpha>>
Versions == Range(VersionSeq)

(***************************************************************************)
(* Config and the HTTP server's resources.                                 *)
(***************************************************************************)
\* impl Default for Config
Config == [version_list_proxy_url |-> "https://raw.githubusercontent.com/Hapenia-Lans/godotup/main/versions.yml",
           download_proxy_url |-> "https://downloads.tuxfamily.org/godotengine/",
           set_godot_bin |-> TRUE,
           set_godot4_bin |-> TRUE]

UrlSeq == <<"https://example/godot-4.0.3-linux64.zip", "https://example/godot-4.0.0-alpha8.zip">>

Urls == Range(UrlSeq) \cup {Config.version_list_proxy_url, Config.download_proxy_url}

\* The registry the cached descriptor holds, and the one the server publishes.
OldPairs == << <<1, 1>>, <<4, 2>> >>
NewPairs == << <<1, 1>>, <<3, 1>>, <<4, 2>> >>

\* serde_yaml::to_string of a VersionList: the "versions:" header byte, then
\* one (key, url) byte pair per entry.
RECURSIVE Serialize(_)
Serialize(pairs) ==
    IF pairs = <<>> THEN <<>> ELSE <<pairs[1][1], pairs[1][2]>> \o Serialize(Tail(pairs))

Header == <<1>>

Descriptor(pairs) == Header \o Serialize(pairs)

OldDescriptor == Descriptor(OldPairs)
NewDescriptor == Descriptor(NewPairs)

\* The body a non-success response (and the download site's index) carries.
ErrorPage == <<99>>
IndexPage == <<60, 61>>

ArchiveA == <<10, 11, 12>>
ArchiveB == <<20, 21>>

Body(url) ==
    CASE url = Config.version_list_proxy_url -> NewDescriptor
      [] url = Config.download_proxy_url -> IndexPage
      [] url = UrlSeq[1] -> ArchiveA
      [] url = UrlSeq[2] -> ArchiveB

(***************************************************************************)
(* Paths and the file system.                                              *)
(***************************************************************************)
S(tok) == <<tok>>

ParentDir == S("..")

TempDir == <<S("tmp")>>
HomeDir == <<S("home")>>
DataLocalDir == <<S("home"), S(".local"), S("share")>>

\* How the operating system resolves a path: ".." steps to the parent.
RECURSIVE Resolve(_)
Resolve(path) ==
    IF path = <<>> THEN <<>>
    ELSE LET front == Resolve(Take(path, Len(path) - 1))
             last == path[Len(path)]
         IN  IF last = ParentDir
             THEN (IF front = <<>> THEN <<>> ELSE Take(front, Len(front) - 1))
             ELSE Append(front, last)

\* A node of the file system; mode 0 stands for the default permissions.
Dir == [kind |-> "dir", bytes |-> <<>>, mode |-> 0]
File(bytes, mode) == [kind |-> "file", bytes |-> bytes, mode |-> mode]

exists(f, path) == Resolve(path) \in DOMAIN f

is_file(f, path) == exists(f, path) /\ f[Resolve(path)].kind = "file"

is_dir(f, path) == exists(f, path) /\ f[Resolve(path)].kind = "dir"

Prefixes(path) == {Take(path, n) : n \in 1..Len(path)}

Put(f, path, node) == [q \in DOMAIN f \cup {path} |-> IF q = path THEN node ELSE f[q]]

Remove(f, path) == [q \in DOMAIN f \ {path} |-> f[q]]

\* fs::create_dir_all: fails when a component exists and is a file.
create_dir_all_ok(f, path) == \A q \in Prefixes(Resolve(path)) : q \in DOMAIN f => f[q].kind = "dir"

create_dir_all(f, path) ==
    [q \in DOMAIN f \cup Prefixes(Resolve(path)) |-> IF q \in DOMAIN f THEN f[q] ELSE Dir]

Parent(path) == Take(path, Len(path) - 1)

\* fs::File::create and OpenOptions::create: the parent must be a directory
\* and the path must not be one.
create_ok(f, path) == Len(path) > 0 /\ is_dir(f, Parent(path)) /\ ~is_dir(f, path)

(***************************************************************************)
(* Option values.                                                          *)
(***************************************************************************)
None == [some |-> FALSE, val |-> <<>>]
Some(x) == [some |-> TRUE, val |-> x]

(***************************************************************************)
(* godot::VersionList and its descriptor.                                  *)
(***************************************************************************)
PairCount(bytes) == (Len(bytes) - 1) \div 2
KeyAt(bytes, i) == bytes[2 * i]
UrlAt(bytes, i) == bytes[2 * i + 1]

\* serde_yaml::from_str::<VersionList> succeeds on a header followed by whole
\* (key, url) pairs with distinct, known keys.
from_str_ok(bytes) ==
    /\ Len(bytes) >= 1
    /\ Take(bytes, 1) = Header
    /\ (Len(bytes) - 1) % 2 = 0
    /\ \A i \in 1..PairCount(bytes) :
          /\ KeyAt(bytes, i) \in 1..Len(VersionSeq)
          /\ UrlAt(bytes, i) \in 1..Len(UrlSeq)
          /\ \A j \in 1..PairCount(bytes) : KeyAt(bytes, i) = KeyAt(bytes, j) => i = j

from_str(bytes) ==
    LET keys == {VersionSeq[KeyAt(bytes, i)] : i \in 1..PairCount(bytes)}
    IN  [versions |->
            [v \in keys |->
                UrlSeq[UrlAt(bytes, CHOOSE i \in 1..PairCount(bytes) : VersionSeq[KeyAt(bytes, i)] = v)]]]

EmptyList == [versions |-> [v \in {} |-> ""]]

\* A lookup that forgets the platform field of the key.
find_url_ignoring_platform(list, vers) ==
    LET same == {k \in DOMAIN list.versions : [k EXCEPT !.platform = vers.platform] = vers}
    IN  IF same = {} THEN None ELSE Some(list.versions[CHOOSE k \in same : TRUE])

\* A lookup that forgets the is_mono field of the key.
find_url_ignoring_mono(list, vers) ==
    LET same == {k \in DOMAIN list.versions : [k EXCEPT !.is_mono = vers.is_mono] = vers}
    IN  IF same = {} THEN None ELSE Some(list.versions[CHOOSE k \in same : TRUE])

\* VersionList::find_url: HashMap::get under the derived Eq and Hash.
find_url(list, vers) ==
    IF vers \in DOMAIN list.versions THEN Some(list.versions[vers]) ELSE None

(***************************************************************************)
(* Paths the program derives.                                              *)
(***************************************************************************)
AppData == Append(DataLocalDir, S("godotup"))

\* version_list_path: appdata_dir()?.join("versions.yml")
CachePath == Append(AppData, S("versions.yml"))

\* An install directory named after the version number alone.
godot_version_dir_by_versnum(vcs) == HomeDir \o <<S(".godotup"), versnum_to_str(vcs)>>

\* godot_version_dir: home_dir().join(".godotup").join(format!("{}", vcs))
godot_version_dir(vcs) == HomeDir \o <<S(".godotup"), Display(vcs)>>

\* env::temp_dir().join(format!("{}.zip", version))
tmp_path(version) == Append(TempDir, Display(version) \o <<".zip">>)

(***************************************************************************)
(* Archives.                                                               *)
(***************************************************************************)
Name(root, comps, dir) == [root |-> root, comps |-> comps, dir |-> dir]

Entry(name, bytes, unix_mode) == [name |-> name, bytes |-> bytes, unix_mode |-> unix_mode]

\* "a/", "../escape.txt", "a/b.txt" (mode 0o755)
EntriesA == << Entry(Name(FALSE, <<S("a")>>, TRUE), <<>>, None),
               Entry(Name(FALSE, <<ParentDir, S("escape.txt")>>, FALSE), <<66>>, None),
               Entry(Name(FALSE, <<S("a"), S("b.txt")>>, FALSE), <<7>>, Some(493)) >>

\* "/abs.txt", "d/../../up.txt", "godot" (mode 0o755)
EntriesB == << Entry(Name(TRUE, <<S("abs.txt")>>, FALSE), <<67>>, None),
               Entry(Name(FALSE, <<S("d"), ParentDir, ParentDir, S("up.txt")>>, FALSE), <<68>>, None),
               Entry(Name(FALSE, <<S("godot")>>, FALSE), <<8>>, Some(493)) >>

\* zip::ZipArchive::new: the central directory of a well-formed archive.
ZipArchive_new(bytes) ==
    CASE bytes = ArchiveA -> Some(EntriesA)
      [] bytes = ArchiveB -> Some(EntriesB)
      [] OTHER -> None

RECURSIVE Depth(_, _)
\* The depth walk of enclosed_name: -1 once a ".." climbs above the start.
Depth(comps, d) ==
    IF comps = <<>> THEN d
    ELSE IF Head(comps) = ParentDir
         THEN (IF d = 0 THEN -1 ELSE Depth(Tail(comps), d - 1))
         ELSE Depth(Tail(comps), d + 1)

\* An enclosed_name that accepts every name.
enclosed_name_unchecked(name) == Some(name)

\* ZipFile::enclosed_name: None for a rooted name or one that climbs out.
enclosed_name(name) ==
    IF name.root \/ Depth(name.comps, 0) < 0 THEN None ELSE Some(name)

\* Path::join: a rooted argument replaces the base.
join(base, name) == IF name.root THEN name.comps ELSE base \o name.comps

(***************************************************************************)
(* Invocations.  proc[p] holds the position and the locals of slot p's     *)
(* current invocation; result and msg are what it returned.                *)
(***************************************************************************)
Local0 ==
    [pc |-> "idle", op |-> "none", nops |-> 0, version |-> VLinux,
     result |-> "none", msg |-> <<>>,
     loaded |-> FALSE, dl |-> "none",
     url |-> "", path |-> <<>>, dl0 |-> None, head |-> 0, range |-> None,
     status |-> 0, respBody |-> <<>>, stream |-> <<>>,
     had_cache |-> FALSE, old |-> <<>>,
     vcs_list |-> EmptyList, entries |-> <<>>, i |-> 0, to |-> <<>>,
     nreq |-> 0, touched |-> {}, iofail |-> FALSE]

is_success(status) == status \in 200..299

\* The file system before any invocation: the system directories, with or
\* without godotup's data directory and a cached descriptor in it.
BaseFs ==
    [q \in Prefixes(TempDir) \cup Prefixes(HomeDir) \cup Prefixes(DataLocalDir) |-> Dir]

InitialFs ==
    { BaseFs,
      Put(BaseFs, AppData, Dir),
      Put(Put(BaseFs, AppData, Dir), CachePath, File(OldDescriptor, 0)) }

\* The inputs and results of the pure functions, when none is being applied.
Pure0 ==
    [stage |-> "none", a |-> VLinux, b |-> VLinux, os |-> "linux", target_arch |-> "x86_64",
     text_a |-> <<>>, text_b |-> <<>>, suffix |-> [result |-> "none", val |-> <<>>],
     filename |-> <<>>]

Init ==
    /\ fs \in InitialFs
    /\ unix \in BOOLEAN
    /\ pure = Pure0
    /\ proc = [p \in Procs |-> Local0]
    /\ quota = [p \in Procs |-> IF p = 1 THEN MaxOps ELSE 0]

CanStart(p) == proc[p].pc = "idle" /\ proc[p].nops < quota[p]

Begin(p, op, version, pc) ==
    [Local0 EXCEPT !.pc = pc, !.op = op, !.version = version, !.nops = proc[p].nops + 1]

\* The invocation returns (or panics) with result res.
Finish(l, res, msg) == [l EXCEPT !.pc = "idle", !.result = res, !.msg = msg]

\* Entering download_from_url(url, path).
Call_download(l, f, url, path) ==
    [l EXCEPT !.pc = "dl_head", !.dl = "running", !.url = url, !.path = path,
              !.dl0 = IF is_file(f, path) THEN Some(f[Resolve(path)].bytes) ELSE None]

(***************************************************************************)
(* appdata_dir, as the first step of version_list_path.                    *)
(***************************************************************************)
\* appdata_dir creates the data directory when it is missing.
appdata_dir(f) == IF exists(f, AppData) THEN f ELSE Put(f, AppData, Dir)

(***************************************************************************)
(* CliApp::update_version_list                                             *)
(***************************************************************************)
update_version_list(p) ==
    /\ CanStart(p)
    /\ proc' = [proc EXCEPT ![p] = Begin(p, "update", VLinux, "upd_path")]
    /\ UNCHANGED <<fs, quota, unix, pure>>

\* let version_list = version_list_path()?;
upd_version_list_path(p) ==
    /\ proc[p].pc = "upd_path"
    /\ \E io_ok \in BOOLEAN :
          IF io_ok \/ exists(fs, AppData)
          THEN /\ fs' = appdata_dir(fs)
               /\ proc' = [proc EXCEPT ![p] =
                     [@ EXCEPT !.pc = "upd_remove",
                               !.had_cache = is_file(fs, CachePath),
                               !.old = IF is_file(fs, CachePath) THEN fs[CachePath].bytes ELSE <<>>,
                               !.touched = IF exists(fs, AppData) THEN @ ELSE @ \cup {AppData}]]
          ELSE /\ fs' = fs
               /\ proc' = [proc EXCEPT ![p] = Finish(@, "Err:Io", <<"create_dir">>)]
    /\ UNCHANGED <<quota, unix, pure>>

\* if version_list.exists() { fs::remove_file(&version_list)?; }
upd_remove_file(f) == IF exists(f, CachePath) THEN Remove(f, CachePath) ELSE f

upd_remove(p) ==
    /\ proc[p].pc = "upd_remove"
    /\ \E io_ok \in BOOLEAN :
          IF io_ok \/ ~exists(fs, CachePath)
          THEN /\ fs' = upd_remove_file(fs)
               /\ proc' = [proc EXCEPT ![p] =
                     Call_download([@ EXCEPT !.touched = IF exists(fs, CachePath)
                                                          THEN @ \cup {CachePath} ELSE @],
                                   upd_remove_file(fs), Config.download_proxy_url, CachePath)]
          ELSE /\ fs' = fs
               /\ proc' = [proc EXCEPT ![p] = Finish(@, "Err:Io", <<"remove_file">>)]
    /\ UNCHANGED <<quota, unix, pure>>

(***************************************************************************)
(* download_from_url                                                       *)
(***************************************************************************)
\* What download_from_url's caller does with its Ok(()).
dl_return(l) ==
    IF l.op = "install" THEN [l EXCEPT !.pc = "uz_open", !.dl = "Ok"]
    ELSE Finish([l EXCEPT !.dl = "Ok"], "Ok", <<>>)

\* An install that goes on to unzip after a failed download.
dl_fail_ignored(l, res, msg) ==
    IF l.op = "install" THEN [l EXCEPT !.pc = "uz_open", !.dl = "Err"]
    ELSE [l EXCEPT !.pc = "idle", !.dl = "Err", !.result = res, !.msg = msg]

\* download_from_url returns Err, which its caller passes on with `?`.
dl_fail(l, res, msg) == Finish([l EXCEPT !.dl = "Err"], res, msg)

\* client.head(url).send().await? and the status check on the response.
dl_head(p) ==
    /\ proc[p].pc = "dl_head"
    /\ \E outcome \in {200, 404, 0} :
          proc' = [proc EXCEPT ![p] =
              LET l == [@ EXCEPT !.nreq = @ + 1, !.head = outcome]
              IN  CASE outcome = 0 -> dl_fail(l, "Err:Send", <<"head">>)
                    [] is_success(outcome) -> [l EXCEPT !.pc = "dl_range"]
                    [] OTHER -> dl_fail(l, "Err:Status", <<"Couldn't download URL">>)]
    /\ UNCHANGED <<fs, quota, unix, pure>>

\* u64::saturating_sub
saturating_sub(a, b) == IF a >= b THEN a - b ELSE 0

\* The offset a resume of a file of length len asks for.
resume_offset(len) == saturating_sub(len, 1)

\* if path.exists() { request = request.header(RANGE, "bytes={size}-") }
dl_range(p) ==
    /\ proc[p].pc = "dl_range"
    /\ proc' = [proc EXCEPT ![p] =
          [@ EXCEPT !.pc = "dl_send",
                    !.range = IF exists(fs, proc[p].path)
                              THEN Some(resume_offset(Len(fs[Resolve(proc[p].path)].bytes)))
                              ELSE None]]
    /\ UNCHANGED <<fs, quota, unix, pure>>

\* The responses a server may give to GET url with the optional Range header:
\* the whole resource (no Range, or the Range ignored), the part from the
\* offset (Range honoured), 416 for an offset past the end, or an error.
Responses(url, range) ==
    LET src == Body(url)
    IN  {[status |-> 200, body |-> src], [status |-> 500, body |-> ErrorPage]}
        \cup (IF range.some /\ range.val < Len(src)
              THEN {[status |-> 206, body |-> Drop(src, range.val)]} ELSE {})
        \cup (IF range.some /\ range.val >= Len(src)
              THEN {[status |-> 416, body |-> ErrorPage]} ELSE {})

\* let mut source = request.send().await?;
dl_send(p) ==
    /\ proc[p].pc = "dl_send"
    /\ \/ proc' = [proc EXCEPT ![p] = dl_fail([@ EXCEPT !.nreq = @ + 1], "Err:Send", <<"get">>)]
       \/ \E r \in Responses(proc[p].url, proc[p].range) :
             proc' = [proc EXCEPT ![p] =
                 [@ EXCEPT !.pc = "dl_open", !.nreq = @ + 1, !.status = r.status,
                           !.respBody = r.body, !.stream = r.body]]
    /\ UNCHANGED <<fs, quota, unix, pure>>

\* fs::OpenOptions::new().create(true).append(true).open(&path)?
dl_open(p) ==
    /\ proc[p].pc = "dl_open"
    /\ \E io_ok \in BOOLEAN :
          IF io_ok /\ create_ok(fs, proc[p].path)
          THEN /\ fs' = IF exists(fs, proc[p].path) THEN fs
                        ELSE Put(fs, Resolve(proc[p].path), File(<<>>, 0))
               /\ proc' = [proc EXCEPT ![p] =
                     [@ EXCEPT !.pc = "dl_chunk",
                               !.touched = IF exists(fs, proc[p].path) THEN @
                                           ELSE @ \cup {Resolve(proc[p].path)}]]
          ELSE /\ fs' = fs
               /\ proc' = [proc EXCEPT ![p] = dl_fail(@, "Err:Io", <<"open">>)]
    /\ UNCHANGED <<quota, unix, pure>>

\* A downloader that deletes the partial file when the stream breaks.
on_stream_error_delete(f, path) == IF exists(f, path) THEN Remove(f, Resolve(path)) ELSE f

\* source.chunk().await? returning Err: the function returns, the file stays.
on_stream_error(f, path) == f

\* dest.write_all(&chunk) on a file opened for appending.
write_all(f, path, chunk) ==
    IF is_file(f, path)
    THEN [f EXCEPT ![Resolve(path)].bytes = @ \o chunk]
    ELSE f

\* while let Some(chunk) = source.chunk().await? { dest.write_all(&chunk)?; }
dl_chunk(p) ==
    /\ proc[p].pc = "dl_chunk"
    /\ proc[p].stream # <<>>
    /\ \/ \E n \in 1..MaxChunk :
             /\ n <= Len(proc[p].stream)
             /\ \E io_ok \in BOOLEAN :
                   IF io_ok
                   THEN /\ fs' = write_all(fs, proc[p].path, Take(proc[p].stream, n))
                        /\ proc' = [proc EXCEPT ![p] =
                              [@ EXCEPT !.stream = Drop(@, n),
                                        !.touched = @ \cup {Resolve(proc[p].path)}]]
                   ELSE /\ fs' = fs
                        /\ proc' = [proc EXCEPT ![p] =
                              dl_fail([@ EXCEPT !.stream = Drop(@, n)], "Err:Io", <<"write_all">>)]
       \/ /\ fs' = on_stream_error(fs, proc[p].path)
          /\ proc' = [proc EXCEPT ![p] = dl_fail(@, "Err:Stream", <<"chunk">>)]
    /\ UNCHANGED <<quota, unix, pure>>

\* The stream ends: println!("Completed!"); Ok(())
dl_completed(p) ==
    /\ proc[p].pc = "dl_chunk"
    /\ proc[p].stream = <<>>
    /\ proc' = [proc EXCEPT ![p] = dl_return(@)]
    /\ UNCHANGED <<fs, quota, unix, pure>>

(***************************************************************************)
(* load_version_list                                                       *)
(***************************************************************************)
\* File::open(&path)?, read_to_string, serde_yaml::from_str: the registry, or
\* the error when the cache is missing or malformed.
load_version_list(f) ==
    IF ~is_file(f, CachePath) THEN [result |-> "Err:Io", list |-> EmptyList]
    ELSE IF ~from_str_ok(f[CachePath].bytes) THEN [result |-> "Err:Yaml", list |-> EmptyList]
    ELSE [result |-> "Ok", list |-> from_str(f[CachePath].bytes)]

(***************************************************************************)
(* unzip                                                                   *)
(***************************************************************************)
Changed(f, g) == {q \in DOMAIN g : q \notin DOMAIN f \/ f[q] # g[q]}

Faults == {"none", "by_index", "create_dir_all", "create", "copy", "set_permissions"}

\* The I/O calls the loop body makes for entry e, each of which may fail.
Applicable(f, to, e, isUnix) ==
    LET en == enclosed_name(e.name)
    IN  {"none", "by_index"}
        \cup (IF en.some /\ (e.name.dir \/ ~exists(f, Parent(join(to, e.name))))
              THEN {"create_dir_all"} ELSE {})
        \cup (IF en.some /\ ~e.name.dir THEN {"create", "copy"} ELSE {})
        \cup (IF en.some /\ isUnix /\ e.unix_mode.some THEN {"set_permissions"} ELSE {})

\* One iteration of the loop of unzip on entry e, where the call named by
\* fault fails: the file system it leaves and whether it ran to its end.
unzip_entry(f, to, e, fault, isUnix) ==
    LET en == enclosed_name(e.name)
        stop(g) == [fs |-> g, ok |-> FALSE]
        perms(g, outpath) ==
            IF isUnix /\ e.unix_mode.some
            THEN (IF fault = "set_permissions" THEN stop(g)
                  ELSE [fs |-> [g EXCEPT ![Resolve(outpath)].mode = e.unix_mode.val], ok |-> TRUE])
            ELSE [fs |-> g, ok |-> TRUE]
    IN  IF fault = "by_index" THEN stop(f)
        ELSE IF ~en.some THEN [fs |-> f, ok |-> TRUE]
        ELSE LET outpath == join(to, en.val)
             IN  IF e.name.dir
                 THEN (IF fault = "create_dir_all" \/ ~create_dir_all_ok(f, outpath) THEN stop(f)
                       ELSE perms(create_dir_all(f, outpath), outpath))
                 ELSE LET mk == ~exists(f, Parent(outpath))
                          fA == IF mk THEN create_dir_all(f, Parent(outpath)) ELSE f
                          keep == IF is_file(fA, outpath) THEN fA[Resolve(outpath)].mode ELSE 0
                          fB == Put(fA, Resolve(outpath), File(<<>>, keep))
                          fC == Put(fA, Resolve(outpath), File(e.bytes, keep))
                      IN  IF mk /\ (fault = "create_dir_all" \/ ~create_dir_all_ok(f, Parent(outpath)))
                          THEN stop(f)
                          ELSE IF fault = "create" \/ ~create_ok(fA, outpath) THEN stop(fA)
                          ELSE IF fault = "copy" THEN stop(fB)
                          ELSE perms(fC, outpath)

\* let file = fs::File::open(from)?; ZipArchive::new(file).unwrap()
uz_open(p) ==
    /\ proc[p].pc = "uz_open"
    /\ \E io_ok \in BOOLEAN :
          proc' = [proc EXCEPT ![p] =
              IF ~(io_ok /\ is_file(fs, proc[p].path)) THEN Finish(@, "Err:Io", <<"open">>)
              ELSE LET archive == ZipArchive_new(fs[Resolve(proc[p].path)].bytes)
                   IN  IF ~archive.some THEN Finish(@, "Panic", <<"ZipArchive::new">>)
                       ELSE [@ EXCEPT !.pc = "uz_entry", !.entries = archive.val, !.i = 1,
                                      !.to = godot_version_dir(proc[p].version)]]
    /\ UNCHANGED <<fs, quota, unix, pure>>

\* The body of for i in 0..archive.len(), every call of it unwrapped.
uz_entry(p) ==
    /\ proc[p].pc = "uz_entry"
    /\ proc[p].i <= Len(proc[p].entries)
    /\ LET e == proc[p].entries[proc[p].i]
       IN  \E fault \in Applicable(fs, proc[p].to, e, unix) :
              LET r == unzip_entry(fs, proc[p].to, e, fault, unix)
              IN  /\ fs' = r.fs
                  /\ proc' = [proc EXCEPT ![p] =
                        LET l == [@ EXCEPT !.touched = @ \cup Changed(fs, r.fs)]
                        IN  IF r.ok THEN [l EXCEPT !.i = @ + 1]
                            ELSE Finish([l EXCEPT !.iofail = TRUE], "Panic", <<fault>>)]
    /\ UNCHANGED <<quota, unix, pure>>

\* The loop ends: Ok(())
uz_done(p) ==
    /\ proc[p].pc = "uz_entry"
    /\ proc[p].i > Len(proc[p].entries)
    /\ proc' = [proc EXCEPT ![p] = Finish(@, "Ok", <<>>)]
    /\ UNCHANGED <<fs, quota, unix, pure>>

(***************************************************************************)
(* CliApp::install_godot                                                   *)
(***************************************************************************)
install_godot(p) ==
    /\ CanStart(p)
    /\ \E version \in Versions :
          proc' = [proc EXCEPT ![p] = Begin(p, "install", version, "inst_load")]
    /\ UNCHANGED <<fs, quota, unix, pure>>

\* let vcs_list = load_version_list()?;
inst_load(p) ==
    /\ proc[p].pc = "inst_load"
    /\ \E io_ok \in BOOLEAN :
          IF io_ok \/ exists(fs, AppData)
          THEN /\ fs' = appdata_dir(fs)
               /\ proc' = [proc EXCEPT ![p] =
                     LET r == load_version_list(appdata_dir(fs))
                         l == [@ EXCEPT !.touched = IF exists(fs, AppData) THEN @ ELSE @ \cup {AppData}]
                     IN  IF r.result = "Ok"
                         THEN [l EXCEPT !.pc = "inst_find", !.loaded = TRUE, !.vcs_list = r.list]
                         ELSE Finish(l, r.result, <<"load_version_list">>)]
          ELSE /\ fs' = fs
               /\ proc' = [proc EXCEPT ![p] = Finish(@, "Err:Io", <<"create_dir">>)]
    /\ UNCHANGED <<quota, unix, pure>>

\* find_url(&version).context(format!("Version {} not found", &version))?
inst_find(p) ==
    /\ proc[p].pc = "inst_find"
    /\ proc' = [proc EXCEPT ![p] =
          LET url == find_url(proc[p].vcs_list, proc[p].version)
          IN  IF url.some
              THEN Call_download(@, fs, url.val, tmp_path(proc[p].version))
              ELSE Finish(@, "Err:VersionNotFound",
                          <<"Version ">> \o Display(proc[p].version) \o <<" not found">>)]
    /\ UNCHANGED <<fs, quota, unix, pure>>

(***************************************************************************)
(* CliApp::switch                                                          *)
(***************************************************************************)
\* The body of switch is todo!(): every call panics.
switch(p) ==
    /\ CanStart(p)
    /\ \E version \in Versions :
          proc' = [proc EXCEPT ![p] =
              Finish(Begin(p, "switch", version, "idle"), "Panic", <<"not yet implemented">>)]
    /\ UNCHANGED <<fs, quota, unix, pure>>

Next ==
    \E p \in Procs :
        \/ update_version_list(p)
        \/ upd_version_list_path(p)
        \/ upd_remove(p)
        \/ dl_head(p)
        \/ dl_range(p)
        \/ dl_send(p)
        \/ dl_open(p)
        \/ dl_chunk(p)
        \/ dl_completed(p)
        \/ install_godot(p)
        \/ inst_load(p)
        \/ inst_find(p)
        \/ uz_open(p)
        \/ uz_entry(p)
        \/ uz_done(p)
        \/ switch(p)

Spec == Init /\ [][Next]_vars

\* Two invocations at a time: both slots run, on a file system that holds the
\* cached descriptor and no temporary archive.
InitConc ==
    /\ fs = Put(Put(BaseFs, AppData, Dir), CachePath, File(OldDescriptor, 0))
    /\ unix \in BOOLEAN
    /\ pure = Pure0
    /\ proc = [p \in Procs |-> Local0]
    /\ quota = [p \in Procs |-> MaxConcOps]

SpecConc == InitConc /\ [][Next]_vars

(***************************************************************************)
(* The pure functions of godot::Version, applied to drawn inputs.          *)
(***************************************************************************)
Minors == {0, 11}
Suffixes == {Stable, Alpha(1), Alpha(11), Beta(1), Rc(1)}

FmtVersions ==
    {Version(4, minor, 3, suffix, is_mono, platform) :
        minor \in Minors, suffix \in Suffixes, is_mono \in BOOLEAN, platform \in Platform}

HostOS == {"linux", "windows", "macos", "freebsd"}
TargetArch == {"x86", "x86_64", "aarch64"}

InitPure ==
    /\ fs = BaseFs
    /\ unix = TRUE
    /\ proc = [p \in Procs |-> Local0]
    /\ quota = [p \in Procs |-> 0]
    /\ \/ \E a, b \in FmtVersions : pure = [Pure0 EXCEPT !.stage = "input", !.a = a, !.b = b]
       \/ \E os \in HostOS, target_arch \in TargetArch :
             pure = [Pure0 EXCEPT !.stage = "host", !.os = os, !.target_arch = target_arch]

\* format!("{}", version) of the two versions.
to_string ==
    /\ pure.stage = "input"
    /\ pure' = [pure EXCEPT !.stage = "shown", !.text_a = Display(pure.a), !.text_b = Display(pure.b)]
    /\ UNCHANGED <<fs, proc, quota, unix>>

\* Version::to_filename: format!("{}{}.zip", self, get_platform_suffix())
to_filename ==
    /\ pure.stage = "host"
    /\ LET r == get_platform_suffix(pure.os, pure.target_arch)
       IN  pure' = [pure EXCEPT !.stage = "named", !.suffix = r,
                                !.filename = IF r.result = "Ok"
                                             THEN Display(pure.a) \o r.val \o <<".zip">>
                                             ELSE <<>>]
    /\ UNCHANGED <<fs, proc, quota, unix>>

NextPure == to_string \/ to_filename

SpecPure == InitPure /\ [][NextPure]_vars

(***************************************************************************)
(* Properties.                                                             *)
(***************************************************************************)
Returned(p) == proc[p].pc = "idle" /\ proc[p].op # "none"

\* What the destination of p's download held when the download was called.
Before(p) == IF proc[p].dl0.some THEN proc[p].dl0.val ELSE <<>>

\* The bytes of the response that p's download has taken off the stream.
Received(p) == Take(proc[p].respBody, Len(proc[p].respBody) - Len(proc[p].stream))

Source(p) == Body(proc[p].url)

\* The destination held a proper, non-empty prefix of the source.
HeldPrefix(p) ==
    /\ proc[p].dl0.some
    /\ Len(Before(p)) > 0
    /\ Len(Before(p)) < Len(Source(p))
    /\ IsPrefix(Before(p), Source(p))

\* C1: during a refresh that started with a cache present, and after it
\* whether it succeeded or failed, the cache path holds the complete old
\* descriptor or a complete new one.
C1_CacheOldOrNew ==
    \A p \in Procs :
        proc[p].op = "update" /\ proc[p].had_cache =>
            /\ is_file(fs, CachePath)
            /\ fs[CachePath].bytes \in
                  {proc[p].old, Body(Config.version_list_proxy_url), Body(Config.download_proxy_url)}

\* C2: a download that found the first K bytes of the N-byte source
\* (0 < K < N) in the destination and was answered with the requested part
\* asked for offset K, and on success the destination equals the source.
C2_ResumeCompletes ==
    \A p \in Procs :
        proc[p].dl = "Ok" /\ HeldPrefix(p) /\ proc[p].status = 206 =>
            /\ proc[p].range = Some(Len(Before(p)))
            /\ fs[proc[p].path].bytes = Source(p)

\* C3: a download that found L > 0 bytes in the destination and was answered
\* with the full body (the offset ignored) leaves the destination equal to
\* the source.
C3_FullBodyRestarts ==
    \A p \in Procs :
        /\ proc[p].dl = "Ok"
        /\ proc[p].dl0.some /\ Len(Before(p)) > 0
        /\ proc[p].range.some /\ proc[p].status = 200
        => fs[proc[p].path].bytes = Source(p)

\* A name that is rooted, or that climbs out of the directory `to` at some
\* point of its walk.
Escapes(to, name) ==
    \/ name.root
    \/ \E n \in 1..Len(name.comps) : ~IsPrefix(to, Resolve(to \o Take(name.comps, n)))

Extracted(f, to, e) ==
    LET q == Resolve(join(to, e.name))
    IN  /\ q \in DOMAIN f
        /\ IF e.name.dir THEN f[q].kind = "dir"
           ELSE f[q].kind = "file" /\ f[q].bytes = e.bytes

\* C4: an install writes nothing outside its target directory (but the
\* directories leading to it, its temporary archive and the data directory),
\* it writes nothing for an escaping entry, and an unzip that returns Ok has
\* extracted every entry that does not escape.
C4_PathContainment ==
    \A p \in Procs :
        proc[p].op = "install" =>
            LET to == godot_version_dir(proc[p].version)
            IN  /\ \A q \in proc[p].touched :
                      \/ q \in {AppData, tmp_path(proc[p].version)}
                      \/ IsPrefix(q, to)
                      \/ IsPrefix(to, q)
                /\ \A k \in 1..Len(proc[p].entries) :
                      LET e == proc[p].entries[k]
                      IN  /\ Escapes(to, e.name) /\ k < proc[p].i =>
                                 Resolve(join(to, e.name)) \notin proc[p].touched
                          /\ ~Escapes(to, e.name) /\ Returned(p) /\ proc[p].result = "Ok" =>
                                 Extracted(fs, to, e)

\* C4's case: an unzip returned Ok on an archive whose escaping entry comes
\* before another entry.
C4_Witness ==
    \E p \in Procs :
        /\ proc[p].op = "install" /\ Returned(p) /\ proc[p].result = "Ok"
        /\ \E j, k \in 1..Len(proc[p].entries) :
              /\ j < k
              /\ Escapes(proc[p].to, proc[p].entries[j].name)
              /\ ~Escapes(proc[p].to, proc[p].entries[k].name)
              /\ Extracted(fs, proc[p].to, proc[p].entries[k])

\* C5: switch to a version whose install directory does not exist returns
\* NotInstalledError.
C5_SwitchNotInstalled ==
    \A p \in Procs :
        /\ proc[p].op = "switch" /\ Returned(p)
        /\ ~exists(fs, godot_version_dir(proc[p].version))
        => proc[p].result = "Err:NotInstalled"

\* C6: install of a version absent from the loaded registry fails with the
\* not-found error naming the version, having sent no request and written
\* nothing.
C6_AbsentFailsFirst ==
    \A p \in Procs :
        /\ proc[p].op = "install" /\ proc[p].loaded /\ proc[p].pc # "inst_find"
        /\ proc[p].version \notin DOMAIN proc[p].vcs_list.versions
        => /\ Returned(p)
           /\ proc[p].result = "Err:VersionNotFound"
           /\ proc[p].msg = <<"Version ">> \o Display(proc[p].version) \o <<" not found">>
           /\ proc[p].nreq = 0
           /\ proc[p].touched = {}
           /\ proc[p].dl = "none"

\* C6's case: an install of the Win64 build, which the registry lacks,
\* returned.
C6_Witness ==
    \E p \in Procs :
        /\ proc[p].op = "install" /\ proc[p].loaded /\ Returned(p)
        /\ proc[p].version = VWin
        /\ VLinux \in DOMAIN proc[p].vcs_list.versions

\* The (version, url) pairs a descriptor lists.
Listed(bytes) ==
    {<<VersionSeq[KeyAt(bytes, i)], UrlSeq[UrlAt(bytes, i)]>> : i \in 1..PairCount(bytes)}

\* C7: with the registry loaded from the cache, the lookup of a listed
\* version yields its URL, and the lookup of any other version, those
\* differing from a listed one in platform or in is_mono only included,
\* yields not-found.
C7_ExactLookup ==
    \A p \in Procs :
        proc[p].op = "install" /\ proc[p].loaded /\ proc[p].pc # "inst_find" =>
            LET listed == Listed(fs[CachePath].bytes)
                v == proc[p].version
            IN  /\ \A u \in Urls : <<v, u>> \in listed => proc[p].url = u
                /\ (\A u \in Urls : <<v, u>> \notin listed) =>
                       proc[p].url = "" /\ proc[p].result = "Err:VersionNotFound"

\* C7's case: the mono twin of a listed key was looked up in the loaded
\* registry and not found.
C7_Witness ==
    \E p \in Procs :
        /\ proc[p].op = "install" /\ proc[p].loaded /\ proc[p].pc # "inst_find"
        /\ proc[p].version = VMono
        /\ proc[p].result = "Err:VersionNotFound"
        /\ <<VLinux, UrlSeq[1]>> \in Listed(fs[CachePath].bytes)

BadStatus(status) == status # 0 /\ ~is_success(status)

\* C8: a non-success status of the HEAD or of the GET makes the download
\* fail with a transfer error, and the body of a non-success GET response is
\* never appended to the destination.
C8_NonSuccessFails ==
    \A p \in Procs :
        /\ BadStatus(proc[p].head) =>
              proc[p].dl = "Err" /\ proc[p].result = "Err:Status"
        /\ BadStatus(proc[p].status) =>
              /\ proc[p].dl # "Ok"
              /\ is_file(fs, proc[p].path) => fs[proc[p].path].bytes = Before(p)

\* C9: a download whose stream broke returned the error after one HEAD and
\* one GET, and its destination still holds what it held before followed by
\* every byte received.
C9_PartialPreserved ==
    \A p \in Procs :
        proc[p].result = "Err:Stream" =>
            /\ Returned(p) /\ proc[p].dl = "Err"
            /\ proc[p].nreq = 2
            /\ is_file(fs, proc[p].path)
            /\ fs[proc[p].path].bytes = Before(p) \o Received(p)

\* C9's case: the stream broke after a chunk was written and before its end.
C9_Witness ==
    \E p \in Procs :
        /\ proc[p].result = "Err:Stream"
        /\ Len(Received(p)) > 0
        /\ proc[p].stream # <<>>
        /\ fs[proc[p].path].bytes = Received(p)

\* C10: an I/O failure on an entry makes unzip return ArchiveError.
C10_FailureReturnsError ==
    \A p \in Procs :
        proc[p].iofail => Returned(p) /\ proc[p].result = "Err:Archive"

\* C11: while another install of the same version is running, the temporary
\* archive of an install holds only the bytes that install received, and an
\* install that returns Ok leaves its archive equal to the source.
C11_OwnTempArchive ==
    \A p, q \in Procs :
        /\ p # q
        /\ proc[p].op = "install" /\ proc[q].op = "install"
        /\ proc[p].version = proc[q].version
        /\ proc[q].pc # "idle"
        => /\ proc[p].pc \in {"dl_chunk", "uz_open", "uz_entry"} =>
                 /\ is_file(fs, proc[p].path)
                 /\ fs[proc[p].path].bytes = Received(p)
           /\ Returned(p) /\ proc[p].result = "Ok" =>
                 fs[proc[p].path].bytes = Source(p)

\* The entries of the archive that the cached registry lists for version v.
ListedEntries(v) ==
    UNION {Range(ZipArchive_new(Body(pair[2])).val) : pair \in {x \in Listed(OldDescriptor) : x[1] = v}}

\* C12: whenever the install directory of a version exists, every entry of
\* its archive that does not escape has been extracted into it.
C12_InstalledIsComplete ==
    \A v \in Versions :
        exists(fs, godot_version_dir(v)) =>
            \A e \in ListedEntries(v) :
                ~Escapes(godot_version_dir(v), e.name) => Extracted(fs, godot_version_dir(v), e)

\* The string Godot_v{major}.{minor}.{patch}{suffix}{variant}, with `stable`
\* as the suffix of a Stable version.
KindText == [Alpha |-> "-alpha", Beta |-> "-beta", Rc |-> "-rc"]

Canonical(v, stable) ==
    <<"Godot_v">> \o Dec(v.major) \o <<".">> \o Dec(v.minor) \o <<".">> \o Dec(v.patch)
        \o (IF v.suffix.kind = "Stable" THEN stable
            ELSE <<KindText[v.suffix.kind]>> \o Dec(v.suffix.n))
        \o (IF v.is_mono THEN <<"_mono">> ELSE <<>>)

\* C13 as stated: the display string has an empty suffix for Stable.
C13_EmptyStableSuffix ==
    pure.stage = "shown" =>
        pure.text_a = Canonical(pure.a, <<>>) /\ pure.text_b = Canonical(pure.b, <<>>)

\* C13, amended: the display string is Godot_v{major}.{minor}.{patch}
\* {suffix}{variant} with the suffix -stable for Stable and -alpha{n},
\* -beta{n}, -rc{n} otherwise, the variant _mono iff is_mono, and no trace of
\* the platform.
C13_DisplayString ==
    pure.stage = "shown" =>
        /\ pure.text_a = Canonical(pure.a, <<"-stable">>)
        /\ pure.text_b = Canonical(pure.b, <<"-stable">>)
        /\ [pure.a EXCEPT !.platform = pure.b.platform] = pure.b => pure.text_a = pure.text_b

\* C13's case: a Stable mono version and a prerelease have been formatted.
C13_Witness ==
    /\ pure.stage = "shown"
    /\ pure.a.suffix = Stable /\ pure.a.is_mono
    /\ pure.b.suffix = Alpha(11) /\ ~pure.b.is_mono
    /\ pure.a.platform # pure.b.platform

\* C14 as stated: the display string determines the version, platform
\* included.
C14_StringDeterminesVersion ==
    pure.stage = "shown" /\ pure.text_a = pure.text_b => pure.a = pure.b

\* C14, amended: the display string determines every field of the version
\* but the platform.
C14_StringDeterminesButPlatform ==
    pure.stage = "shown" /\ pure.text_a = pure.text_b =>
        [pure.a EXCEPT !.platform = pure.b.platform] = pure.b

\* C14's case: two different versions with the same display string.
C14_Witness ==
    pure.stage = "shown" /\ pure.text_a = pure.text_b /\ pure.a # pure.b

\* C15: the platform suffix is linux.<arch>, win32.exe or win64.exe on a
\* Linux or Windows host of a recognised architecture, and
\* UnsupportedPlatformError on every other host.
C15_SuffixOrUnsupported ==
    pure.stage = "named" =>
        LET arch == CASE pure.target_arch = "x86" -> "x86_32"
                      [] pure.target_arch = "x86_64" -> "x86_64"
                      [] OTHER -> ""
        IN  IF pure.os \in {"linux", "windows"} /\ arch # ""
            THEN /\ pure.suffix.result = "Ok"
                 /\ pure.suffix.val = IF pure.os = "linux" THEN <<"linux.", arch>>
                                      ELSE IF arch = "x86_32" THEN <<"win32.exe">>
                                      ELSE <<"win64.exe">>
            ELSE pure.suffix.result = "Err:UnsupportedPlatform"


\* The paths p's invocation changed that lie in or under dir.
TouchedUnder(p, dir) == {q \in proc[p].touched : IsPrefix(dir, q)}

\* C16: an install looks up, then downloads, then extracts: it downloads only
\* after the registry was loaded and held the version, it is unzipping only
\* after download_from_url returned Ok, it has changed nothing in the install
\* directory before that, and it returns Ok only with every entry of the
\* archive processed.
C16_LookupDownloadExtract ==
    \A p \in Procs :
        proc[p].op = "install" =>
            /\ proc[p].dl # "none" =>
                  proc[p].loaded /\ find_url(proc[p].vcs_list, proc[p].version).some
            /\ proc[p].pc \in {"uz_open", "uz_entry"} => proc[p].dl = "Ok"
            /\ proc[p].dl # "Ok" =>
                  /\ TouchedUnder(p, godot_version_dir(proc[p].version)) = {}
                  /\ proc[p].entries = <<>>
            /\ Returned(p) /\ proc[p].result = "Ok" =>
                  /\ proc[p].dl = "Ok"
                  /\ proc[p].entries # <<>>
                  /\ proc[p].i = Len(proc[p].entries) + 1

\* An install returned Ok after unzipping into its install directory.
C16_Witness ==
    \E p \in Procs :
        /\ Returned(p) /\ proc[p].op = "install" /\ proc[p].result = "Ok"
        /\ TouchedUnder(p, godot_version_dir(proc[p].version)) # {}

\* C17: a download that found the complete source in its destination, was
\* answered with the part it asked for and returned Ok leaves the destination
\* byte-identical to the source.
C17_CompleteFileUnchanged ==
    \A p \in Procs :
        /\ proc[p].dl = "Ok"
        /\ proc[p].dl0.some
        /\ Before(p) = Source(p)
        /\ proc[p].status = 206
        => /\ is_file(fs, proc[p].path)
           /\ fs[Resolve(proc[p].path)].bytes = Source(p)

\* The install directory and the temporary archive of version b.
Locations(p, b) ==
    TouchedUnder(p, godot_version_dir(b)) \cup (proc[p].touched \cap {Resolve(tmp_path(b))})

\* a and b differ in a field other than the platform.
DifferBesidesPlatform(a, b) == [a EXCEPT !.platform = b.platform] # b

\* C18 as stated: an install changes nothing in the install directory or the
\* temporary archive of any other version, one differing only in platform
\* included.
C18_DistinctLocations ==
    \A p \in Procs :
        proc[p].op = "install" =>
            \A b \in Versions : b # proc[p].version => Locations(p, b) = {}

\* C18: an install changes nothing in the install directory or the temporary
\* archive of a version that differs from its own in a field other than the
\* platform, and the two versions' locations are different paths.
C18_DistinctButPlatform ==
    \A p \in Procs :
        proc[p].op = "install" =>
            \A b \in Versions :
                DifferBesidesPlatform(b, proc[p].version) =>
                    /\ Locations(p, b) = {}
                    /\ godot_version_dir(b) # godot_version_dir(proc[p].version)
                    /\ tmp_path(b) # tmp_path(proc[p].version)

\* The prerelease was installed after the stable build, whose install directory
\* and temporary archive are on disk.
C18_Witness ==
    \E p \in Procs :
        /\ Returned(p) /\ proc[p].op = "install" /\ proc[p].result = "Ok"
        /\ proc[p].version = VAlpha
        /\ Locations(p, VAlpha) # {}
        /\ is_dir(fs, godot_version_dir(VLinux))
        /\ is_file(fs, tmp_path(VLinux))

\* C19: a refresh downloads from Config.version_list_proxy_url only, and after
\* a refresh that returned Ok the cache holds a descriptor that
\* load_version_list can deserialize.
C19_RefreshFromListUrl ==
    \A p \in Procs :
        proc[p].op = "update" =>
            /\ proc[p].dl # "none" => proc[p].url = Config.version_list_proxy_url
            /\ Returned(p) /\ proc[p].result = "Ok" => load_version_list(fs).result = "Ok"

====
